---- MODULE Spec2Model ----
(***************************************************************************)
(* Discrete-event simulation of pilot allocation for two traffic slices    *)
(* (URLLC = class A, mMTC = class B) in a frame-slotted massive MIMO cell. *)
(* The model follows src/simulation.py: the event loop of run(), the two   *)
(* arrival handlers, the departure (frame boundary) handler with its       *)
(* expiry step, and the five pilot-assignment strategies.                  *)
(***************************************************************************)
EXTENDS Integers, Sequences, FiniteSets, TLC

\* ---------------------------------------------------------------- constants

\* Slice indices and event types (class attributes of Simulation).
URLLC == 0
mMTC == 1
DEPARTURE == 2
URLLC_ARRIVAL == 3
mMTC_ARRIVAL == 4

\* config.get('no_pilots'), config.get('frame_length'): the per-frame budget
\* and the frame duration.
no_pilots == 3
frame_length == 2

\* The run horizon config.get('simulation_length').
simulation_length == 5

\* The pool sizes << no_urllc, no_mmtc >> a simulation is constructed with.
Populations == {<< 2, 1 >>, << 1, 2 >>}

Slices == {URLLC, mMTC}

\* Node.pilot_samples: read from the node configuration by slice name, so
\* every node of a slice carries the same value.
pilot_samples(s, i) == IF s = URLLC THEN 2 ELSE 1

\* The delays an event generator can return (get_init and get_next): positive.
Delays == {2, 3}

Strategies == {"FCFS_FCFS", "RRQ_RRQ", "RRQ_FCFS", "RRN_FCFS", "RRN_RRQ"}

\* A scheduler name a batch driver passes that strategy_mapping does not hold.
Unconfigured == {"FCFS_RRQ"}

\* First arrivals (get_init) that may come within the first frame.
EarlyDelays == {1, 2}

\* The deadline profiles of the URLLC slice: the deadline of the usual runs,
\* and those of the runs that vary the length of the superframe.
UsualDeadlines == {4}
SuperframeDeadlines == {2, 4}

\* ---------------------------------------------------------------- events

\* Event(type, time, dead_time, node_id, counter); a departure carries only
\* its type and time.
Event(type, t, dead, node, counter) ==
    [type |-> type, time |-> t, dead_time |-> dead, node_id |-> node,
     counter |-> counter]

\* Variant of DepartureEvent: the departure is armed for a time before the
\* clock, not one frame after it.
DepartureEvent_before_clock(t) ==
    Event(DEPARTURE, t - frame_length - 1, 0, 0, 0)

\* Variant of DepartureEvent: the departure is armed one frame too late.
DepartureEvent_one_frame_late(t) ==
    Event(DEPARTURE, t + frame_length, 0, 0, 0)

DepartureEvent(t) == Event(DEPARTURE, t, 0, 0, 0)

\* event.get_entry(time, success): the trace entry of a retired request.
get_entry(event, t, success) ==
    [event |-> event, time |-> t, success |-> success]

SliceOf(event) == event.type - 3

\* ---------------------------------------------------------------- lists

\* list.remove(x): drops the first element equal to x.
RECURSIVE Remove(_, _)
Remove(list, x) ==
    IF list = << >> THEN << >>
    ELSE IF Head(list) = x THEN Tail(list)
    ELSE << Head(list) >> \o Remove(Tail(list), x)

\* Variant of insert_front: the element goes to the back of the list.
insert_back(list, x) == list \o << x >>

\* list.insert(0, x)
insert_front(list, x) == << x >> \o list

\* del list[i] (i counted from 1 here).
DeleteAt(list, i) ==
    SubSeq(list, 1, i - 1) \o SubSeq(list, i + 1, Len(list))

\* list(filter(lambda e: e.node_id == ind, list))
FilterNode(list, ind) == SelectSeq(list, LAMBDA e : e.node_id = ind)

\* One insertion step of a stable sort on dead_time: x goes behind every
\* element that does not have to come after it.
RECURSIVE InsertByDeadTime(_, _, _)
InsertByDeadTime(sorted, x, reverse) ==
    IF sorted = << >> THEN << x >>
    ELSE IF (IF reverse THEN Head(sorted).dead_time < x.dead_time
                        ELSE Head(sorted).dead_time > x.dead_time)
         THEN << x >> \o sorted
         ELSE << Head(sorted) >> \o InsertByDeadTime(Tail(sorted), x, reverse)

\* list.sort(key=lambda x: x.dead_time, reverse=...): stable.
RECURSIVE SortFrom(_, _, _, _)
SortFrom(list, i, acc, reverse) ==
    IF i > Len(list) THEN acc
    ELSE SortFrom(list, i + 1, InsertByDeadTime(acc, list[i], reverse), reverse)

SortByDeadTime(list, reverse) == SortFrom(list, 1, << >>, reverse)

\* ---------------------------------------------------------------- state

VARIABLES
    no_urllc,        \* the size of the URLLC pool
    no_mmtc,         \* the size of the mMTC pool
    urllc_deadline,  \* Node.deadline of the URLLC nodes
    raised,          \* the exception that ended run(), "" while there is none
    time,            \* self.time
    event_heap,      \* self.event_heap: the armed events
    send_queue,      \* self.send_queue: one list of pending arrivals per slice
    stats,           \* self.stats.stats: arrival and missed counters
    active,          \* node.active, per slice and node
    assigned,        \* node.assigned, per URLLC node
    frame_counter,   \* self.frame_counter
    node_pointer,    \* self.node_pointer
    trace,           \* the entries written to the trace, in order
    pilot_strategy,  \* self.pilot_strategy
    last             \* the stages of the departure handled last

vars == << no_urllc, no_mmtc, urllc_deadline, raised, time, event_heap,
           send_queue, stats, active, assigned, frame_counter, node_pointer,
           trace, pilot_strategy, last >>

\* Node.deadline: read from the node configuration by slice name.
deadline(s, i) == IF s = URLLC THEN urllc_deadline ELSE 3

\* deadline of URLLC node 0 over the frame length (an integral ratio here).
frame_loops == deadline(URLLC, 0) \div frame_length

\* Slice.no_nodes and the indices of Slice.pool.
no_nodes(s) == IF s = URLLC THEN no_urllc ELSE no_mmtc
pool(s) == 0 .. (no_nodes(s) - 1)

\* The part of the simulation object the handlers of a departure read and
\* write, handed from one step of the handler to the next; budget and stopped
\* are the strategy's local no_pilots and whether its loop was left early.
Sim ==
    [send_queue |-> send_queue, stats |-> stats, active |-> active,
     assigned |-> assigned, frame_counter |-> frame_counter,
     node_pointer |-> node_pointer, trace |-> trace,
     budget |-> no_pilots, stopped |-> FALSE]

\* ---------------------------------------------------------------- expiry

\* Variants of the expiry test: against the previous frame boundary, and with
\* the deadline itself counted as expired.
remove_indices_previous_frame(queue, t) ==
    {i \in 1 .. Len(queue) : queue[i].dead_time < t - frame_length}
remove_indices_inclusive(queue, t) ==
    {i \in 1 .. Len(queue) : queue[i].dead_time <= t}

\* The indices i with queue[i].dead_time < self.time.
remove_indices(queue, t) == {i \in 1 .. Len(queue) : queue[i].dead_time < t}

SetMax(S) == CHOOSE x \in S : \A y \in S : y <= x

\* Variant of expire_event: the expired request is written and deleted
\* without counting the miss.
expire_event_uncounted(sim, key, i, t) ==
    [sim EXCEPT !.active[key][sim.send_queue[key][i].node_id] = FALSE,
                !.trace = Append(@, get_entry(sim.send_queue[key][i], t,
                                              FALSE)),
                !.send_queue[key] = DeleteAt(@, i)]

\* One round of the removal loop: count the miss, clear the node's active
\* flag, write the failed entry, delete the event from the queue.
expire_event(sim, key, i, t) ==
    LET event == sim.send_queue[key][i]
    IN  IF event.type = URLLC_ARRIVAL
        THEN [sim EXCEPT !.active[URLLC][event.node_id] = FALSE,
                         !.stats.no_missed_urllc = @ + 1,
                         !.trace = Append(@, get_entry(event, t, FALSE)),
                         !.send_queue[key] = DeleteAt(@, i)]
        ELSE IF event.type = mMTC_ARRIVAL
        THEN [sim EXCEPT !.active[mMTC][event.node_id] = FALSE,
                         !.stats.no_missed_mmtc = @ + 1,
                         !.trace = Append(@, get_entry(event, t, FALSE)),
                         !.send_queue[key] = DeleteAt(@, i)]
        ELSE [sim EXCEPT !.send_queue[key] = DeleteAt(@, i)]

\* for i in sorted(remove_indices, reverse=True): ...
RECURSIVE expire_loop(_, _, _, _)
expire_loop(sim, key, indices, t) ==
    IF indices = {} THEN sim
    ELSE LET i == SetMax(indices)
         IN  expire_loop(expire_event(sim, key, i, t), key, indices \ {i}, t)

expire_queue(sim, key, t) ==
    expire_loop(sim, key, remove_indices(sim.send_queue[key], t), t)

\* __handle_expired_events: the URLLC queue, then the mMTC queue.
handle_expired_events(sim, t) ==
    expire_queue(expire_queue(sim, URLLC, t), mMTC, t)

\* ---------------------------------------------------------------- serving

\* Variant of serve: the entry is written and the event stays queued.
serve_keeps_event(sim, key, event, t) ==
    [sim EXCEPT !.trace = Append(@, get_entry(event, t, TRUE))]

\* The body every strategy runs for a request it can afford: write the
\* successful entry and remove the event from its queue.
serve(sim, key, event, t) ==
    [sim EXCEPT !.trace = Append(@, get_entry(event, t, TRUE)),
                !.send_queue[key] = Remove(@, event)]

\* for event in events: no_pilots -= cost; serve if no_pilots >= 0, otherwise
\* leave the loop.  events is a copy, so removals do not disturb the walk.
RECURSIVE serve_loop(_, _, _, _, _)
serve_loop(sim, key, events, i, t) ==
    IF i > Len(events) THEN sim
    ELSE LET event == events[i]
             left == sim.budget - pilot_samples(key, event.node_id)
         IN  IF left >= 0
             THEN serve_loop(serve([sim EXCEPT !.budget = left], key, event, t),
                             key, events, i + 1, t)
             ELSE [sim EXCEPT !.budget = left, !.stopped = TRUE]

\* The same loop walking the live queue itself (mmtc_events is
\* self.send_queue['_mMTC'], not a copy): i is the list iterator's position,
\* which moves on by one after every round while a removal shifts the rest of
\* the list forward.
RECURSIVE serve_loop_in_place(_, _, _, _)
serve_loop_in_place(sim, key, i, t) ==
    IF i > Len(sim.send_queue[key]) THEN sim
    ELSE LET event == sim.send_queue[key][i]
             left == sim.budget - pilot_samples(key, event.node_id)
         IN  IF left >= 0
             THEN serve_loop_in_place(
                      serve([sim EXCEPT !.budget = left], key, event, t),
                      key, i + 1, t)
             ELSE [sim EXCEPT !.budget = left, !.stopped = TRUE]

\* Variant of drain_nodes_return: the event that does not fit gets its pilots
\* added back and the walk goes on as if nothing had stopped.
RECURSIVE drain_nodes_restoring(_, _, _, _)
drain_nodes_restoring(sim, key, ind, t) ==
    IF ind >= no_nodes(key) THEN sim
    ELSE LET events == FilterNode(sim.send_queue[key], ind)
             after == serve_loop(sim, key, events, 1, t)
         IN  drain_nodes_restoring(
                 IF after.stopped
                 THEN [after EXCEPT !.budget = @ + pilot_samples(key, ind),
                                    !.stopped = FALSE]
                 ELSE after,
                 key, ind + 1, t)

\* for _node in pool: serve the node's queued events; `return` from the whole
\* strategy at the first event that does not fit.
RECURSIVE drain_nodes_return(_, _, _, _)
drain_nodes_return(sim, key, ind, t) ==
    IF ind >= no_nodes(key) THEN sim
    ELSE LET events == FilterNode(sim.send_queue[key], ind)
             after == serve_loop(sim, key, events, 1, t)
         IN  IF after.stopped THEN after
             ELSE drain_nodes_return(after, key, ind + 1, t)

\* Variant of drain_nodes_break: every node's loop starts with the budget the
\* first one started with.
RECURSIVE drain_nodes_budget_per_node(_, _, _, _)
drain_nodes_budget_per_node(sim, key, ind, t) ==
    IF ind >= no_nodes(key) THEN sim
    ELSE LET events == FilterNode(sim.send_queue[key], ind)
             after == serve_loop(sim, key, events, 1, t)
         IN  drain_nodes_budget_per_node(
                 [after EXCEPT !.budget = sim.budget], key, ind + 1, t)

\* The same with `break`: only the node's own loop is left, and the walk goes
\* on to the next node with the budget it has.
RECURSIVE drain_nodes_break(_, _, _, _)
drain_nodes_break(sim, key, ind, t) ==
    IF ind >= no_nodes(key) THEN sim
    ELSE LET events == FilterNode(sim.send_queue[key], ind)
             after == serve_loop(sim, key, events, 1, t)
         IN  drain_nodes_break(after, key, ind + 1, t)

\* Variant of mmtc_latest_first: the live queue is sorted earliest deadline
\* first.
mmtc_latest_first_ascending(sim, t) ==
    serve_loop_in_place(
        [sim EXCEPT !.send_queue[mMTC] = SortByDeadTime(@, FALSE)], mMTC, 1, t)

\* mmtc_events = self.send_queue['_mMTC']; mmtc_events.sort(reverse=True);
\* for event in mmtc_events: ...
mmtc_latest_first(sim, t) ==
    serve_loop_in_place(
        [sim EXCEPT !.send_queue[mMTC] = SortByDeadTime(@, TRUE)], mMTC, 1, t)

\* ---------------------------------------------------------------- strategies

\* Variant of __fist_come_first_served: the URLLC events in queue order.
fist_come_first_served_unsorted(sim, t) ==
    LET a == serve_loop(sim, URLLC, sim.send_queue[URLLC], 1, t)
    IN  IF a.budget > 0
        THEN serve_loop(a, mMTC, SortByDeadTime(a.send_queue[mMTC], FALSE), 1, t)
        ELSE a

\* __fist_come_first_served
fist_come_first_served(sim, t) ==
    LET urllc_events == SortByDeadTime(sim.send_queue[URLLC], FALSE)
        a == serve_loop(sim, URLLC, urllc_events, 1, t)
    IN  IF a.budget > 0
        THEN serve_loop(a, mMTC, SortByDeadTime(a.send_queue[mMTC], FALSE), 1, t)
        ELSE a

\* __round_robin_queue_info
round_robin_queue_info(sim, t) ==
    LET a == drain_nodes_return(sim, URLLC, 0, t)
    IN  IF a.stopped THEN a
        ELSE IF a.budget > 0 THEN drain_nodes_return(a, mMTC, 0, t)
        ELSE a

\* __round_robin_queue_first_come_first_served
round_robin_queue_first_come_first_served(sim, t) ==
    LET a == drain_nodes_return(sim, URLLC, 0, t)
    IN  IF a.stopped THEN a
        ELSE IF a.budget > 0 THEN mmtc_latest_first(a, t)
        ELSE a

\* frame_counter = (frame_counter + 1) % frame_loops, and the cursor reset.
advance_frame(sim) ==
    LET fc == (sim.frame_counter + 1) % frame_loops
    IN  [sim EXCEPT !.frame_counter = fc,
                    !.node_pointer = IF fc = 1 THEN 0 ELSE @]

\* Variant of grant_scan: the node that does not fit does not get its pilots
\* added back.
RECURSIVE grant_scan_no_restore(_, _)
grant_scan_no_restore(sim, i) ==
    IF i >= no_nodes(URLLC) THEN sim
    ELSE LET left == sim.budget - pilot_samples(URLLC, i)
         IN  IF left >= 0
             THEN grant_scan_no_restore([sim EXCEPT !.budget = left,
                                                    !.node_pointer = @ + 1,
                                                    !.assigned[i] = TRUE],
                                        i + 1)
             ELSE [sim EXCEPT !.budget = left]

\* Variant of grant_scan: the scan does not end with the pool.
RECURSIVE grant_scan_past_pool(_, _)
grant_scan_past_pool(sim, i) ==
    LET left == sim.budget - pilot_samples(URLLC, i)
    IN  IF left >= 0
        THEN grant_scan_past_pool(
                 [sim EXCEPT !.budget = left,
                             !.node_pointer = @ + 1,
                             !.assigned = [n \in DOMAIN @ |-> n = i \/ @[n]]],
                 i + 1)
        ELSE sim

\* for i in range(start_ind, len(pool)): grant node i while the budget covers
\* its pilots; the node that does not fit gets its pilots added back.
RECURSIVE grant_scan(_, _)
grant_scan(sim, i) ==
    IF i >= no_nodes(URLLC) THEN sim
    ELSE LET left == sim.budget - pilot_samples(URLLC, i)
         IN  IF left >= 0
             THEN grant_scan([sim EXCEPT !.budget = left,
                                         !.node_pointer = @ + 1,
                                         !.assigned[i] = TRUE], i + 1)
             ELSE sim

\* Variant of resolve_event: of several events of a node, the one the loop
\* met is served, not the one of the earliest deadline.
resolve_event_as_met(sim, events_assigend, overlapped_event, event, t) ==
    LET events_from_same_node == FilterNode(events_assigend, event.node_id)
    IN  [sim EXCEPT !.send_queue[URLLC] = Remove(@, event),
                    !.trace = Append(@, get_entry(event, t, TRUE)),
                    !.active[URLLC][event.node_id] =
                        Len(events_from_same_node) # 1]

\* One round of the loop of __handle_send_queue over events_assigend.
resolve_event(sim, events_assigend, overlapped_event, event, t) ==
    LET events_from_same_node == FilterNode(events_assigend, event.node_id)
    IN  IF Len(events_from_same_node) = 1
        THEN [sim EXCEPT !.send_queue[URLLC] = Remove(@, event),
                         !.trace = Append(@, get_entry(event, t, TRUE)),
                         !.active[URLLC][event.node_id] = FALSE]
        ELSE LET first == SortByDeadTime(events_from_same_node, FALSE)[1]
             IN  [sim EXCEPT !.active[URLLC][event.node_id] = TRUE,
                             !.send_queue[URLLC] = Remove(@, first),
                             !.trace = Append(@, get_entry(first, t, TRUE))]

RECURSIVE resolve_loop(_, _, _, _, _)
resolve_loop(sim, events_assigend, overlapped_event, i, t) ==
    IF i > Len(events_assigend) THEN sim
    ELSE LET event == events_assigend[i]
         IN  IF event \in overlapped_event
             THEN resolve_loop(sim, events_assigend, overlapped_event, i + 1, t)
             ELSE LET same == FilterNode(events_assigend, event.node_id)
                  IN  resolve_loop(
                          resolve_event(sim, events_assigend, overlapped_event,
                                        event, t),
                          events_assigend,
                          IF Len(same) = 1 THEN overlapped_event
                          ELSE overlapped_event
                               \cup {same[k] : k \in 1 .. Len(same)},
                          i + 1, t)

\* __handle_send_queue: the queued URLLC events of assigned nodes, one served
\* per node.
handle_send_queue(sim, t) ==
    LET queue == sim.send_queue[URLLC]
        events_assigend == SelectSeq(queue, LAMBDA e : sim.assigned[e.node_id])
    IN  resolve_loop(sim, events_assigend, {}, 1, t)

\* __round_robin_no_queue_info_first_come_first_served
round_robin_no_queue_info_first_come_first_served(sim, t) ==
    LET f == advance_frame(sim)
        a == grant_scan(f, f.node_pointer)
        b == IF a.budget > 0 THEN mmtc_latest_first(a, t) ELSE a
    IN  handle_send_queue(b, t)

\* __round_robin_half_queue_info
round_robin_half_queue_info(sim, t) ==
    LET f == advance_frame(sim)
        a == grant_scan(f, f.node_pointer)
        b == IF a.budget > 0 THEN drain_nodes_break(a, mMTC, 0, t) ELSE a
    IN  handle_send_queue(b, t)

\* self.strategy_mapping[self.pilot_strategy]()
assign_pilots(sim, t) ==
    CASE pilot_strategy = "FCFS_FCFS" -> fist_come_first_served(sim, t)
      [] pilot_strategy = "RRQ_RRQ" -> round_robin_queue_info(sim, t)
      [] pilot_strategy = "RRQ_FCFS" ->
             round_robin_queue_first_come_first_served(sim, t)
      [] pilot_strategy = "RRN_FCFS" ->
             round_robin_no_queue_info_first_come_first_served(sim, t)
      [] pilot_strategy = "RRN_RRQ" -> round_robin_half_queue_info(sim, t)

\* ---------------------------------------------------------------- engine

\* EventHeap.pop(): an event of the smallest time; which one of several
\* events armed for the same time comes first is left open.
IsNext(event) ==
    /\ event \in event_heap
    /\ \A other \in event_heap : event.time <= other.time

\* Variant of initial_arrivals: every first arrival carries the counter 1.
initial_arrivals_same_counter(next_arrival) ==
    {Event(s + 3, next_arrival[<<s, i>>],
           next_arrival[<<s, i>>] + (IF s = URLLC THEN urllc_deadline ELSE 3),
           i, 1) :
        <<s, i>> \in {<<s, i>> \in Slices \X (0 .. no_urllc + no_mmtc) :
                          i \in pool(s)}}

\* Variant of initial_arrivals: every first arrival is armed for node 0 of its
\* slice.
initial_arrivals_first_node_only(next_arrival) ==
    {Event(s + 3, next_arrival[<<s, i>>],
           next_arrival[<<s, i>>] + (IF s = URLLC THEN urllc_deadline ELSE 3),
           0, i + 1) :
        <<s, i>> \in {<<s, i>> \in Slices \X (0 .. no_urllc + no_mmtc) :
                          i \in pool(s)}}

\* The first arrival of every node, armed by __initialize_nodes: the nodes of
\* a slice in pool order, each counted as an arrival when it is armed.
initial_arrivals(next_arrival) ==
    {Event(s + 3, next_arrival[<<s, i>>],
           next_arrival[<<s, i>>] + deadline(s, i), i, i + 1) :
        <<s, i>> \in {<<s, i>> \in Slices \X (0 .. no_urllc + no_mmtc) :
                          i \in pool(s)}}

NodeIds == {<<s, i>> \in Slices \X (0 .. no_urllc + no_mmtc) : i \in pool(s)}

\* The stages of one departure: the object before the handler, after the
\* expiry step, and after the assignment of pilots.
Stages(n, t, pre, mid, post) ==
    [n |-> n, time |-> t, pre |-> pre, mid |-> mid, post |-> post]

\* Simulation.__init__ for a scheduler name and a URLLC deadline profile out
\* of the given ones, the first arrival of every node (get_init) drawn from
\* inits.
Construct(schedulers, deadlines, inits) ==
    /\ \E population \in Populations :
           no_urllc = population[1] /\ no_mmtc = population[2]
    /\ urllc_deadline \in deadlines
    /\ raised = ""
    /\ time = 0
    /\ pilot_strategy \in schedulers
    /\ \E next_arrival \in [NodeIds -> inits] :
           event_heap = initial_arrivals(next_arrival)
                        \cup {DepartureEvent(0 + frame_length)}
    /\ send_queue = [s \in Slices |-> << >>]
    /\ stats = [no_urllc_arrivals |-> no_urllc, no_mmtc_arrivals |-> no_mmtc,
                no_missed_urllc |-> 0, no_missed_mmtc |-> 0]
    /\ active = [s \in Slices |-> [i \in pool(s) |-> FALSE]]
    /\ assigned = [i \in pool(URLLC) |-> FALSE]
    /\ frame_counter = 0
    /\ node_pointer = 0
    /\ trace = << >>
    /\ last = Stages(0, 0, Sim, Sim, Sim)

\* The usual runs: a configured scheduler name.
Init == Construct(Strategies, UsualDeadlines, Delays)

\* Variant of run_continues: the loop also goes on at the horizon itself.
run_continues_at_horizon == time <= simulation_length

\* while self.time < self.simulation_length
run_continues == time < simulation_length

\* One round of run() popping a URLLC arrival: __handle_urllc_arrival.
handle_urllc_arrival ==
    /\ raised = ""
    /\ run_continues
    /\ \E event \in event_heap, next_arrival \in Delays :
        /\ IsNext(event)
        /\ event.type = URLLC_ARRIVAL
        /\ time' = event.time
        /\ stats' = [stats EXCEPT !.no_urllc_arrivals = @ + 1]
        /\ send_queue' = [send_queue EXCEPT ![URLLC] = insert_front(@, event)]
        /\ active' = [active EXCEPT ![URLLC][event.node_id] = TRUE]
        /\ event_heap' =
               (event_heap \ {event})
               \cup {Event(URLLC_ARRIVAL, event.time + next_arrival,
                           event.time + next_arrival
                           + deadline(URLLC, event.node_id),
                           event.node_id, stats.no_urllc_arrivals + 1)}
    /\ UNCHANGED << no_urllc, no_mmtc, urllc_deadline, raised, assigned,
                    frame_counter, node_pointer, trace, pilot_strategy, last >>

\* One round of run() popping an mMTC arrival: __handle_mmtc_arrival.
handle_mmtc_arrival ==
    /\ raised = ""
    /\ run_continues
    /\ \E event \in event_heap, next_arrival \in Delays :
        /\ IsNext(event)
        /\ event.type = mMTC_ARRIVAL
        /\ time' = event.time
        /\ stats' = [stats EXCEPT !.no_mmtc_arrivals = @ + 1]
        /\ send_queue' = [send_queue EXCEPT ![mMTC] = insert_front(@, event)]
        /\ active' = [active EXCEPT ![mMTC][event.node_id] = TRUE]
        /\ event_heap' =
               (event_heap \ {event})
               \cup {Event(mMTC_ARRIVAL, event.time + next_arrival,
                           event.time + next_arrival
                           + deadline(mMTC, event.node_id),
                           event.node_id, stats.no_mmtc_arrivals + 1)}
    /\ UNCHANGED << no_urllc, no_mmtc, urllc_deadline, raised, assigned,
                    frame_counter, node_pointer, trace, pilot_strategy, last >>

\* One round of run() popping the departure: __handle_departure, that is the
\* expiry step, the assignment of pilots and the next departure.  A scheduler
\* name that strategy_mapping does not hold raises KeyError in
\* __assign_pilots, after the expiry step and before the next departure is
\* armed, and the exception leaves run().
handle_departure ==
    /\ raised = ""
    /\ run_continues
    /\ \E event \in event_heap :
        /\ IsNext(event)
        /\ event.type = DEPARTURE
        /\ \E mid \in {handle_expired_events(Sim, event.time)} :
           \E post \in {IF pilot_strategy \in Strategies
                        THEN assign_pilots([mid EXCEPT !.budget = no_pilots,
                                                       !.stopped = FALSE],
                                           event.time)
                        ELSE mid} :
               /\ time' = event.time
               /\ send_queue' = post.send_queue
               /\ stats' = post.stats
               /\ active' = post.active
               /\ assigned' = post.assigned
               /\ frame_counter' = post.frame_counter
               /\ node_pointer' = post.node_pointer
               /\ trace' = post.trace
               /\ IF pilot_strategy \in Strategies
                  THEN /\ raised' = raised
                       /\ last' = Stages(last.n + 1, event.time, Sim, mid, post)
                       /\ event_heap' =
                              (event_heap \ {event})
                              \cup {DepartureEvent(event.time + frame_length)}
                  ELSE /\ raised' = "KeyError"
                       /\ last' = last
                       /\ event_heap' = event_heap \ {event}
    /\ UNCHANGED << no_urllc, no_mmtc, urllc_deadline, pilot_strategy >>

Next ==
    \/ handle_urllc_arrival
    \/ handle_mmtc_arrival
    \/ handle_departure

Spec == Init /\ [][Next]_vars

\* The runs a batch driver starts with a scheduler name that is not
\* configured; a first arrival may come before the first departure.
InitUnconfigured == Construct(Unconfigured, UsualDeadlines, EarlyDelays)
SpecUnconfigured == InitUnconfigured /\ [][Next]_vars

\* The runs of the two strategies with a cursor, over superframes of one
\* frame and of two.
InitSuperframe ==
    Construct({"RRN_FCFS", "RRN_RRQ"}, SuperframeDeadlines, Delays)
SpecSuperframe == InitSuperframe /\ [][Next]_vars

\* run() is a sequential loop: while it can take a round, it takes one.
FairSpec == Spec /\ WF_vars(Next)

\* ---------------------------------------------------------------- reading a pass

\* The entries the expiry step and the assignment of pilots of the last
\* departure wrote, in the order written.
ExpiredEntries == SubSeq(last.mid.trace, Len(last.pre.trace) + 1,
                         Len(last.mid.trace))
ServedEntries == SubSeq(last.post.trace, Len(last.mid.trace) + 1,
                        Len(last.post.trace))

Range(seq) == {seq[k] : k \in 1 .. Len(seq)}
Count(seq, P(_)) == Cardinality({k \in 1 .. Len(seq) : P(seq[k])})

\* The events of the entries, and those of one slice.
EventsOf(entries) == [k \in 1 .. Len(entries) |-> entries[k].event]
OfSlice(events, s) == SelectSeq(events, LAMBDA e : SliceOf(e) = s)

RECURSIVE Cost(_)
Cost(events) ==
    IF events = << >> THEN 0
    ELSE pilot_samples(SliceOf(Head(events)), Head(events).node_id)
         + Cost(Tail(events))

\* The arrivals handled so far, by slice and counter: every counter handed
\* out whose event is no longer armed.
ArrivalsCounted(s) ==
    IF s = URLLC THEN stats.no_urllc_arrivals ELSE stats.no_mmtc_arrivals
HandledCounters(s) ==
    (1 .. ArrivalsCounted(s))
    \ {e.counter : e \in {x \in event_heap : x.type = s + 3}}

\* ---------------------------------------------------------------- C1

\* C1: in every allocation pass, under every policy, the pilots of all the
\* requests reported served in that pass, URLLC and mMTC together, add up to
\* at most no_pilots.
C1_PassWithinBudget ==
    last.n > 0 =>
        Cost(EventsOf(SelectSeq(ServedEntries, LAMBDA x : x.success)))
            <= no_pilots

\* ---------------------------------------------------------------- C2

\* C2: every arrival handled so far is either queued exactly once in the
\* queue of its slice with no trace entry, or not queued and with exactly one
\* trace entry; nothing else is queued or reported.
C2_RetiredExactlyOnce ==
    /\ \A s \in Slices : \A c \in HandledCounters(s) :
           LET queued == Count(send_queue[s],
                               LAMBDA e : e.type = s + 3 /\ e.counter = c)
               reported == Count(trace, LAMBDA x : x.event.type = s + 3
                                                   /\ x.event.counter = c)
           IN  \/ queued = 1 /\ reported = 0
               \/ queued = 0 /\ reported = 1
    /\ \A s \in Slices :
           /\ \A e \in Range(send_queue[s]) :
                  e.type = s + 3 /\ e.counter \in HandledCounters(s)
           /\ \A e \in Range(send_queue[1 - s]) : e.type # s + 3
    /\ \A x \in Range(trace) :
           x.event.type \in {URLLC_ARRIVAL, mMTC_ARRIVAL}
           /\ x.event.counter \in HandledCounters(SliceOf(x.event))

\* Witness of C2: after at least two departures some handled arrivals are
\* still queued, some were served and some expired.
C2_Witness ==
    /\ last.n >= 2
    /\ \E s \in Slices : send_queue[s] # << >>
    /\ \E x \in Range(trace) : x.success
    /\ \E x \in Range(trace) : ~x.success

\* ---------------------------------------------------------------- C3

\* C3: no request is reported served at a time later than its deadline; a
\* request queued at a frame boundary with its deadline before the clock is
\* reported failed once at that boundary, and a request reported failed is
\* never reported served.
C3_NeverServedLate ==
    /\ \A x \in Range(trace) : x.success => x.time <= x.event.dead_time
    /\ last.n > 0 =>
           \A s \in Slices : \A e \in Range(last.pre.send_queue[s]) :
               e.dead_time < last.time =>
                   /\ Count(ExpiredEntries,
                            LAMBDA x : x.event = e /\ ~x.success
                                       /\ x.time = last.time) = 1
                   /\ Count(ServedEntries, LAMBDA x : x.event = e) = 0
    /\ \A x \in Range(trace) :
           ~x.success => Count(trace, LAMBDA y : y.event = x.event) = 1

\* Witness of C3: a departure found an overdue request queued and also
\* served a request in its allocation pass.
C3_Witness ==
    /\ last.n > 0
    /\ \E s \in Slices : \E e \in Range(last.pre.send_queue[s]) :
           e.dead_time < last.time
    /\ \E x \in Range(ServedEntries) : x.success

\* ---------------------------------------------------------------- C4

MissedCounted(st, s) ==
    IF s = URLLC THEN st.no_missed_urllc ELSE st.no_missed_mmtc

\* C4: the expiry step at time t removes from each queue exactly the requests
\* with dead_time < t, keeps the others in their order, writes one failed
\* entry per removed request, adds the number removed from a slice to that
\* slice's missed counter and leaves the arrival counters alone.
C4_ExpiryStep ==
    last.n > 0 =>
        /\ \A s \in Slices :
               /\ last.mid.send_queue[s]
                      = SelectSeq(last.pre.send_queue[s],
                                  LAMBDA e : ~(e.dead_time < last.time))
               /\ MissedCounted(last.mid.stats, s)
                      = MissedCounted(last.pre.stats, s)
                        + Count(last.pre.send_queue[s],
                                LAMBDA e : e.dead_time < last.time)
               /\ \A e \in Range(last.pre.send_queue[s]) :
                      e.dead_time < last.time =>
                          Count(ExpiredEntries, LAMBDA x : x.event = e) = 1
        /\ \A x \in Range(ExpiredEntries) :
               /\ ~x.success
               /\ x.time = last.time
               /\ x.event \in Range(last.pre.send_queue[SliceOf(x.event)])
               /\ x.event.dead_time < last.time
        /\ last.mid.stats.no_urllc_arrivals = last.pre.stats.no_urllc_arrivals
        /\ last.mid.stats.no_mmtc_arrivals = last.pre.stats.no_mmtc_arrivals

\* Witness of C4: an expiry step that removed a request from a queue and
\* kept in the same queue a request whose deadline is the clock itself.
C4_Witness ==
    /\ last.n > 0
    /\ \E s \in Slices :
           /\ \E e \in Range(last.pre.send_queue[s]) : e.dead_time < last.time
           /\ \E e \in Range(last.mid.send_queue[s]) : e.dead_time = last.time

\* ---------------------------------------------------------------- orders

\* Whether q[j] comes before q[i] when q is put in deadline order (ascending,
\* or descending with reverse), equal deadlines keeping their queue order.
ComesBefore(q, j, i, reverse) ==
    \/ (IF reverse THEN q[j].dead_time > q[i].dead_time
                   ELSE q[j].dead_time < q[i].dead_time)
    \/ q[j].dead_time = q[i].dead_time /\ j < i

InDeadlineOrder(q, reverse) ==
    [k \in 1 .. Len(q) |->
        q[CHOOSE i \in 1 .. Len(q) :
              Cardinality({j \in 1 .. Len(q) : ComesBefore(q, j, i, reverse)})
                  = k - 1]]

\* The queued events node by node in pool order, each node's in queue order.
RECURSIVE InNodeOrder(_, _, _)
InNodeOrder(q, s, ind) ==
    IF ind >= no_nodes(s) THEN << >>
    ELSE SelectSeq(q, LAMBDA e : e.node_id = ind) \o InNodeOrder(q, s, ind + 1)

\* The longest prefix of events whose pilots add up to at most budget.
LongestPrefix(events, budget) ==
    LET fits == {k \in 0 .. Len(events) : Cost(SubSeq(events, 1, k)) <= budget}
    IN  IF fits = {} THEN << >> ELSE SubSeq(events, 1, SetMax(fits))

Without(q, events) == SelectSeq(q, LAMBDA e : e \notin Range(events))

\* What the last allocation pass served, by slice, in the order served, and
\* what the queues held when it started and when it ended.
ServedOf(s) == OfSlice(EventsOf(ServedEntries), s)
QueueBefore(s) == last.mid.send_queue[s]
QueueAfter(s) == last.post.send_queue[s]

\* ---------------------------------------------------------------- C5

\* C5: in a FCFS_FCFS pass the URLLC requests served are exactly the longest
\* prefix, within the budget, of the URLLC queue in ascending deadline order;
\* the others stay queued, and none of them has an earlier deadline than a
\* served one.
C5_FcfsServesDeadlinePrefix ==
    (last.n > 0 /\ pilot_strategy = "FCFS_FCFS") =>
        LET fit == LongestPrefix(InDeadlineOrder(QueueBefore(URLLC), FALSE),
                                 no_pilots)
        IN  /\ ServedOf(URLLC) = fit
            /\ QueueAfter(URLLC) = Without(QueueBefore(URLLC), fit)
            /\ \A x \in Range(ServedOf(URLLC)) :
                   \A u \in Range(QueueAfter(URLLC)) :
                       x.dead_time <= u.dead_time

\* Witness of C5: a FCFS_FCFS pass that served the URLLC request of the
\* earlier deadline and left one of a later deadline queued, the queue not
\* being in deadline order.
C5_Witness ==
    /\ last.n > 0 /\ pilot_strategy = "FCFS_FCFS"
    /\ ServedOf(URLLC) # << >>
    /\ QueueAfter(URLLC) # << >>
    /\ QueueBefore(URLLC) # InDeadlineOrder(QueueBefore(URLLC), FALSE)
    /\ \E x \in Range(ServedOf(URLLC)) : \E u \in Range(QueueAfter(URLLC)) :
           x.dead_time < u.dead_time

\* ---------------------------------------------------------------- C6

\* C6: in a FCFS_FCFS pass the mMTC requests served are the longest prefix of
\* the mMTC queue in ascending deadline order that fits in no_pilots minus
\* the pilots of the URLLC requests served, whether or not the URLLC loop
\* stopped at a request it could not afford.
C6_FcfsMmtcGetsLeftover ==
    (last.n > 0 /\ pilot_strategy = "FCFS_FCFS") =>
        ServedOf(mMTC)
            = LongestPrefix(InDeadlineOrder(QueueBefore(mMTC), FALSE),
                            no_pilots - Cost(ServedOf(URLLC)))

\* ---------------------------------------------------------------- C7

\* C7: in a RRQ_RRQ pass the URLLC requests served are the longest prefix,
\* within the budget, of the URLLC queue taken node by node in pool order; if
\* a URLLC request did not fit, no mMTC request is served; otherwise the mMTC
\* queue is served the same way with what is left, when that is more than 0.
C7_RrqDrainsNodesInOrder ==
    (last.n > 0 /\ pilot_strategy = "RRQ_RRQ") =>
        LET urllc == InNodeOrder(QueueBefore(URLLC), URLLC, 0)
            fit == LongestPrefix(urllc, no_pilots)
            left == no_pilots - Cost(fit)
        IN  /\ ServedOf(URLLC) = fit
            /\ QueueAfter(URLLC) = Without(QueueBefore(URLLC), fit)
            /\ ServedOf(mMTC)
                   = IF fit # urllc \/ left <= 0 THEN << >>
                     ELSE LongestPrefix(InNodeOrder(QueueBefore(mMTC), mMTC, 0),
                                        left)
            /\ QueueAfter(mMTC) = Without(QueueBefore(mMTC), ServedOf(mMTC))

\* Witness of C7: a RRQ_RRQ pass that stopped at a URLLC request of a later
\* node with pilots left over and mMTC requests waiting.
C7_Witness ==
    /\ last.n > 0 /\ pilot_strategy = "RRQ_RRQ"
    /\ ServedOf(URLLC) # << >>
    /\ QueueAfter(URLLC) # << >>
    /\ \E x \in Range(ServedOf(URLLC)) : \E u \in Range(QueueAfter(URLLC)) :
           x.node_id < u.node_id
    /\ Cost(ServedOf(URLLC)) < no_pilots
    /\ QueueBefore(mMTC) # << >>
    /\ ServedOf(mMTC) = << >>

\* Second case of C7: a RRQ_RRQ pass that served every URLLC request and went
\* on to the mMTC nodes, where it stopped before the queue was empty.
C7_WitnessMmtc ==
    /\ last.n > 0 /\ pilot_strategy = "RRQ_RRQ"
    /\ ServedOf(URLLC) # << >> /\ QueueAfter(URLLC) = << >>
    /\ ServedOf(mMTC) # << >> /\ QueueAfter(mMTC) # << >>

\* ---------------------------------------------------------------- C8

\* The URLLC nodes granted by the grant scan of the last pass: the cursor
\* positions it passed over, from 0 when the cursor was reset in this pass.
GrantedNodes ==
    (IF last.post.frame_counter = 1 THEN 0 ELSE last.pre.node_pointer)
        .. (last.post.node_pointer - 1)

RECURSIVE NodesCost(_)
NodesCost(nodes) ==
    IF nodes = {} THEN 0
    ELSE LET i == CHOOSE i \in nodes : TRUE
         IN  pilot_samples(URLLC, i) + NodesCost(nodes \ {i})

\* The pilots left for the mMTC phase of the last pass of RRQ_FCFS or
\* RRN_FCFS, and whether that phase is entered at all.
MmtcLeftover ==
    IF pilot_strategy = "RRQ_FCFS" THEN no_pilots - Cost(ServedOf(URLLC))
    ELSE no_pilots - NodesCost(GrantedNodes)
MmtcPhaseEntered ==
    /\ MmtcLeftover > 0
    /\ pilot_strategy = "RRQ_FCFS" => QueueAfter(URLLC) = << >>

\* C8: in the mMTC phase of RRQ_FCFS and RRN_FCFS the requests served are
\* exactly the longest prefix, within the leftover, of the mMTC queue in
\* descending deadline order, and no request stays queued while one of an
\* earlier deadline is served.
C8_MmtcLatestFirstPrefix ==
    (last.n > 0 /\ pilot_strategy \in {"RRQ_FCFS", "RRN_FCFS"}
     /\ MmtcPhaseEntered) =>
        /\ ServedOf(mMTC)
               = LongestPrefix(InDeadlineOrder(QueueBefore(mMTC), TRUE),
                               MmtcLeftover)
        /\ \A x \in Range(ServedOf(mMTC)) :
               \A u \in Range(QueueAfter(mMTC)) : u.dead_time <= x.dead_time

\* ---------------------------------------------------------------- C9

\* C9: in the overlap resolution of RRN_FCFS and RRN_RRQ at most one request
\* of a URLLC node is served; an assigned node with several queued requests
\* has the one of the earliest deadline served, the others stay queued and
\* the node is active after the pass; with exactly one, that one is served
\* and the node is not active after the pass; the requests of a node that is
\* not assigned stay queued.
C9_OverlapServesEarliestOnly ==
    (last.n > 0 /\ pilot_strategy \in {"RRN_FCFS", "RRN_RRQ"}) =>
        \A i \in pool(URLLC) :
            LET queued == FilterNode(QueueBefore(URLLC), i)
                served == FilterNode(ServedOf(URLLC), i)
                left == FilterNode(QueueAfter(URLLC), i)
            IN  /\ Len(served) <= 1
                /\ Len(served) + Len(left) = Len(queued)
                /\ Range(served) \cup Range(left) = Range(queued)
                /\ (last.post.assigned[i] /\ Len(queued) > 1) =>
                       /\ Len(served) = 1
                       /\ \A u \in Range(queued) :
                              served[1].dead_time <= u.dead_time
                       /\ last.post.active[URLLC][i]
                /\ (last.post.assigned[i] /\ Len(queued) = 1) =>
                       /\ served = queued
                       /\ ~last.post.active[URLLC][i]
                /\ ~last.post.assigned[i] => served = << >>

\* Witness of C9: an overlap resolution that found two requests of one
\* assigned node, the later arrival (of the later deadline) ahead in the
\* queue, served the earlier one, and served the single request of another
\* node.
C9_Witness ==
    /\ last.n > 0 /\ pilot_strategy \in {"RRN_FCFS", "RRN_RRQ"}
    /\ \E i \in pool(URLLC) :
           /\ last.post.assigned[i]
           /\ Len(FilterNode(QueueBefore(URLLC), i)) > 1
           /\ Len(FilterNode(ServedOf(URLLC), i)) = 1
           /\ FilterNode(ServedOf(URLLC), i)[1].dead_time
                  < FilterNode(QueueBefore(URLLC), i)[1].dead_time
           /\ last.post.active[URLLC][i]
    /\ \E i \in pool(URLLC) :
           /\ last.post.assigned[i]
           /\ Len(FilterNode(QueueBefore(URLLC), i)) = 1
           /\ Len(FilterNode(ServedOf(URLLC), i)) = 1
           /\ ~last.post.active[URLLC][i]

\* ---------------------------------------------------------------- C10

\* C10: under RRN_FCFS and RRN_RRQ a URLLC request is served in a pass only
\* if its node was granted by the grant scan of that same pass.
C10_ServedOnlyIfGrantedThisFrame ==
    (last.n > 0 /\ pilot_strategy \in {"RRN_FCFS", "RRN_RRQ"}) =>
        \A x \in Range(ServedOf(URLLC)) : x.node_id \in GrantedNodes

\* ---------------------------------------------------------------- C11

\* The departures armed in the event heap.
Departures(heap) == {e \in heap : e.type = DEPARTURE}

\* C11: between two rounds of run() the event heap holds exactly one
\* departure, and its time is the time of the last departure handled plus
\* frame_length, or frame_length when none was handled yet.
C11_OneDepartureArmed ==
    /\ Cardinality(Departures(event_heap)) = 1
    /\ \A e \in Departures(event_heap) :
           e.time = IF last.n = 0 THEN frame_length
                    ELSE last.time + frame_length

\* Witness of C11: two departures were handled, arrivals were handled after
\* the second one, and the third departure is armed.
C11_Witness ==
    /\ last.n >= 2
    /\ time > last.time
    /\ Departures(event_heap) = {DepartureEvent(last.time + frame_length)}

\* ---------------------------------------------------------------- C20

\* The arrivals armed in the event heap, and those of one node.
Arrivals(heap) == {e \in heap : e.type \in {URLLC_ARRIVAL, mMTC_ARRIVAL}}
ArrivalsOf(heap, s, i) == {e \in heap : e.type = s + 3 /\ e.node_id = i}

\* C20: between two rounds of run() the event heap holds exactly one arrival
\* for every node of each slice and no other arrival, so the arrivals armed
\* are as many as the URLLC pool and the mMTC pool together.
C20_OneArrivalArmedPerNode ==
    /\ \A id \in NodeIds :
           Cardinality(ArrivalsOf(event_heap, id[1], id[2])) = 1
    /\ \A e \in Arrivals(event_heap) : << SliceOf(e), e.node_id >> \in NodeIds
    /\ Cardinality(Arrivals(event_heap)) = no_urllc + no_mmtc

\* Witness of C20: every node has had its first arrival handled and its next
\* one armed, some node more than once, and a departure was handled.
C20_Witness ==
    /\ last.n >= 1
    /\ \A e \in Arrivals(event_heap) :
           e.counter > no_nodes(SliceOf(e))
    /\ \E e \in Arrivals(event_heap) :
           e.counter > 2 * no_nodes(SliceOf(e))
    /\ Cardinality(Arrivals(event_heap)) = no_urllc + no_mmtc

\* ---------------------------------------------------------------- C14

\* Most recent arrival first: no entry arrived before one behind it.
MostRecentFirst(q) ==
    \A j \in 1 .. Len(q) : \A k \in j .. Len(q) : q[j].time >= q[k].time

\* C14: the assignment of pilots, under every strategy, changes the two
\* queues only by removing the requests it served: the queue of each slice
\* after the pass is the queue before the pass without the served requests,
\* in the same order, most recent arrival first.
C14_PassOnlyRemovesServed ==
    last.n > 0 =>
        \A s \in Slices :
            /\ Range(ServedOf(s)) \subseteq Range(QueueBefore(s))
            /\ QueueAfter(s) = Without(QueueBefore(s), ServedOf(s))
            /\ MostRecentFirst(QueueBefore(s))
            /\ MostRecentFirst(QueueAfter(s))

\* Witness of C14: a pass of a strategy that sorts the live mMTC queue served
\* an mMTC request and left two of different deadlines queued.
C14_Witness ==
    /\ last.n > 0
    /\ pilot_strategy \in {"RRQ_FCFS", "RRN_FCFS"}
    /\ ServedOf(mMTC) # << >>
    /\ Len(QueueAfter(mMTC)) >= 2
    /\ QueueAfter(mMTC)[1].dead_time # QueueAfter(mMTC)[2].dead_time

\* Witness of C14 for the URLLC queue: a pass served a URLLC request and left
\* two queued.
C14_WitnessUrllc ==
    /\ last.n > 0
    /\ ServedOf(URLLC) # << >>
    /\ Len(QueueAfter(URLLC)) >= 2

\* ---------------------------------------------------------------- C15

\* The arrival and missed counters of a slice in the statistics st.
ArrivalCounter(st, s) ==
    IF s = URLLC THEN st.no_urllc_arrivals ELSE st.no_mmtc_arrivals
MissedCounter(st, s) ==
    IF s = URLLC THEN st.no_missed_urllc ELSE st.no_missed_mmtc

\* What the round that popped the arrival e did.
ArrivalEffect(e) ==
    LET s == SliceOf(e)
        o == 1 - s
    IN  /\ time' = e.time
        /\ ArrivalCounter(stats', s) = ArrivalCounter(stats, s) + 1
        /\ send_queue'[s] = << e >> \o send_queue[s]
        /\ active'[s][e.node_id]
        /\ \E armed \in event_heap' :
               /\ event_heap' = (event_heap \ {e}) \cup {armed}
               /\ armed \notin event_heap
               /\ armed.type = e.type
               /\ armed.node_id = e.node_id
               /\ armed.time - e.time \in Delays
               /\ armed.dead_time = armed.time + deadline(s, e.node_id)
        /\ send_queue'[o] = send_queue[o]
        /\ ArrivalCounter(stats', o) = ArrivalCounter(stats, o)
        /\ \A x \in Slices : MissedCounter(stats', x) = MissedCounter(stats, x)
        /\ Departures(event_heap') = Departures(event_heap)

\* C15: the round that pops an arrival of slice s for node i at time t adds
\* one to the arrival counter of s, puts the event at the front of the queue
\* of s with the earlier entries behind it in their order, sets node i
\* active and arms one new arrival of the same slice and node at t + delay
\* with dead_time t + delay + deadline; the queue and the arrival counter of
\* the other slice, both missed counters and the armed departure stay as
\* they are.
C15_ArrivalHandled ==
    [][\A e \in Arrivals(event_heap) \ event_heap' : ArrivalEffect(e)]_vars

\* Witness of C15: an arrival was handled at the current time in front of
\* two earlier entries of its queue, for a node that has its next arrival
\* armed.
C15_Witness ==
    \E s \in Slices :
        /\ Len(send_queue[s]) >= 3
        /\ send_queue[s][1].time = time
        /\ send_queue[s][2].time < time
        /\ \E armed \in ArrivalsOf(event_heap, s, send_queue[s][1].node_id) :
               armed.time > time

\* ---------------------------------------------------------------- C17

\* The grant scan of the last pass: the state it started from, with the
\* frame counted and the cursor where the scan starts, and the state it left
\* to the mMTC phase.
ScanStart ==
    advance_frame([last.mid EXCEPT !.budget = no_pilots, !.stopped = FALSE])
ScanEnd == grant_scan(ScanStart, ScanStart.node_pointer)
ScanGranted == {i \in pool(URLLC) : ScanEnd.assigned[i]
                                    /\ i >= ScanStart.node_pointer
                                    /\ i < ScanEnd.node_pointer}

\* C17: in the grant scan of RRN_FCFS and RRN_RRQ the nodes granted are the
\* pool indices from the cursor at the start of the scan up to the cursor at
\* its end, without a gap; their pilots add up to at most no_pilots; the
\* cursor moves on by the number of nodes granted; the scan stops at the
\* first node that does not fit; and the mMTC phase gets no_pilots minus the
\* pilots of the granted nodes.
C17_GrantScan ==
    (last.n > 0 /\ pilot_strategy \in {"RRN_FCFS", "RRN_RRQ"}) =>
        /\ ScanGranted = ScanStart.node_pointer .. (ScanEnd.node_pointer - 1)
        /\ \A i \in pool(URLLC) \ ScanGranted :
               ScanEnd.assigned[i] = last.mid.assigned[i]
        /\ NodesCost(ScanGranted) <= no_pilots
        /\ ScanEnd.node_pointer
               = ScanStart.node_pointer + Cardinality(ScanGranted)
        /\ ScanEnd.node_pointer = last.post.node_pointer
        /\ ScanEnd.node_pointer <= no_nodes(URLLC)
        /\ ScanEnd.node_pointer < no_nodes(URLLC) =>
               NodesCost(ScanGranted)
               + pilot_samples(URLLC, ScanEnd.node_pointer) > no_pilots
        /\ ScanEnd.budget = no_pilots - NodesCost(ScanGranted)
        /\ Cost(ServedOf(mMTC)) <= ScanEnd.budget

\* Witness of C17: a scan that started behind node 0 without a reset granted
\* a node, and the mMTC phase served a request with the pilots left.
C17_Witness ==
    /\ last.n > 0
    /\ pilot_strategy \in {"RRN_FCFS", "RRN_RRQ"}
    /\ ScanStart.node_pointer > 0
    /\ ScanGranted # {}
    /\ ServedOf(mMTC) # << >>

\* Witness of C17 for the stop: a scan granted a node and stopped at the next
\* one, which did not fit.
C17_WitnessStopped ==
    /\ last.n > 0
    /\ pilot_strategy \in {"RRN_FCFS", "RRN_RRQ"}
    /\ ScanGranted # {}
    /\ ScanEnd.node_pointer < no_nodes(URLLC)

\* ---------------------------------------------------------------- C18

\* The mMTC phase of RRN_RRQ and that of RRQ_RRQ, started from the current
\* queues with the pilots given.
HalfQueueMmtcPhase(sim, pilots) ==
    drain_nodes_break([sim EXCEPT !.budget = pilots, !.stopped = FALSE],
                      mMTC, 0, time)
QueueInfoMmtcPhase(sim, pilots) ==
    drain_nodes_return([sim EXCEPT !.budget = pilots, !.stopped = FALSE],
                       mMTC, 0, time)

\* C18: started with the same mMTC queue and the same leftover above zero,
\* the mMTC phase of RRN_RRQ, which leaves only the loop of the node when the
\* pilots run out, serves the same mMTC requests in the same order as the
\* mMTC phase of RRQ_RRQ, which returns from the pass; and the mMTC phase of
\* a pass of RRN_RRQ served what that of RRQ_RRQ serves with the pilots the
\* grant scan left.
C18_BreakServesAsReturn ==
    /\ \A pilots \in 1 .. no_pilots :
           /\ HalfQueueMmtcPhase(Sim, pilots).trace
                  = QueueInfoMmtcPhase(Sim, pilots).trace
           /\ HalfQueueMmtcPhase(Sim, pilots).send_queue
                  = QueueInfoMmtcPhase(Sim, pilots).send_queue
    /\ (last.n > 0 /\ pilot_strategy = "RRN_RRQ" /\ ScanEnd.budget > 0) =>
           LET expected == drain_nodes_return(ScanEnd, mMTC, 0, last.time)
           IN  /\ ServedOf(mMTC)
                      = OfSlice(EventsOf(SubSeq(expected.trace,
                                                Len(last.mid.trace) + 1,
                                                Len(expected.trace))), mMTC)
               /\ QueueAfter(mMTC) = expected.send_queue[mMTC]

\* Witness of C18: the pilots run out in the loop of mMTC node 0 while node 1
\* has a request queued behind it.
C18_Witness ==
    \E pilots \in 1 .. no_pilots :
        /\ Len(FilterNode(send_queue[mMTC], 0)) > pilots
        /\ FilterNode(send_queue[mMTC], 1) # << >>
        /\ HalfQueueMmtcPhase(Sim, pilots).budget < -1
        /\ Len(HalfQueueMmtcPhase(Sim, pilots).trace) = Len(trace) + pilots

\* Witness of C18 in a pass: a pass of RRN_RRQ served an mMTC request and
\* left one queued.
C18_WitnessPass ==
    /\ last.n > 0
    /\ pilot_strategy = "RRN_RRQ"
    /\ ScanEnd.budget > 0
    /\ ServedOf(mMTC) # << >>
    /\ QueueAfter(mMTC) # << >>

\* ---------------------------------------------------------------- C12

\* No arrival was handled: both queues are empty, the armed arrivals are the
\* first ones of the nodes, and the counters are those of the construction.
NoEventHandled ==
    /\ \A s \in Slices :
           /\ send_queue[s] = << >>
           /\ ArrivalCounter(stats, s) = no_nodes(s)
           /\ MissedCounter(stats, s) = 0
    /\ \A e \in Arrivals(event_heap) : e.counter = e.node_id + 1
    /\ trace = << >>

\* C12: with a scheduler name that strategy_mapping does not hold, the run
\* fails before any event is handled: up to the failure and at it, no arrival
\* was popped, no request is queued and no counter has changed.
C12_UnconfiguredFailsFirst ==
    pilot_strategy \notin Strategies => NoEventHandled

\* The failure as the code has it: it comes no earlier than the first
\* departure, whose expiry step has run, and every arrival armed for an
\* earlier time has been handled by then.
C12_FailsAtFirstDeparture ==
    /\ raised # "" =>
           /\ raised = "KeyError"
           /\ time = frame_length
           /\ Departures(event_heap) = {}
           /\ \A e \in Arrivals(event_heap) : e.time >= frame_length
    /\ (pilot_strategy \notin Strategies /\ raised = "") =>
           time <= frame_length /\ Cardinality(Departures(event_heap)) = 1

\* ---------------------------------------------------------------- C16

\* The passes at which a superframe of frame_loops frames starts: the first
\* one and every frame_loops-th after it.
SuperframeStarts == (last.n - 1) % frame_loops = 0

\* What the last pass did to the cursor before its scan: set back to 0 at
\* the start of a superframe, left where it was, and not moved back by the
\* scan, within one.
CursorFollowsSuperframe ==
    IF SuperframeStarts
    THEN ScanStart.node_pointer = 0
    ELSE /\ ScanStart.node_pointer = last.pre.node_pointer
         /\ last.post.node_pointer >= last.pre.node_pointer

\* C16: under RRN_FCFS and RRN_RRQ the cursor is set back to 0 once in every
\* frame_loops passes, at every pass when frame_loops = 1, and is not moved
\* back in between.
C16_CursorResetEverySuperframe ==
    (last.n > 0 /\ pilot_strategy \in {"RRN_FCFS", "RRN_RRQ"}) =>
        CursorFollowsSuperframe

\* The same for superframes of two frames and more, where it holds.
C16_ResetWhenSeveralFrames ==
    (last.n > 0 /\ pilot_strategy \in {"RRN_FCFS", "RRN_RRQ"}
     /\ frame_loops >= 2) =>
        CursorFollowsSuperframe

\* With a superframe of one frame the cursor is never set back: it is the
\* number of nodes granted since the start of the run.
C16_NeverResetWhenOneFrame ==
    (pilot_strategy \in {"RRN_FCFS", "RRN_RRQ"} /\ frame_loops = 1) =>
        /\ frame_counter = 0
        /\ node_pointer >= last.pre.node_pointer
        /\ node_pointer = Cardinality({i \in pool(URLLC) : assigned[i]})

\* ---------------------------------------------------------------- C13

\* The node has a request in the queue of its slice.
HasQueued(s, i) == \E e \in Range(send_queue[s]) : e.node_id = i

\* C13: between two rounds of run(), under every strategy, a node is active
\* exactly when it has a request queued.
C13_ActiveIffQueued ==
    \A s \in Slices : \A i \in pool(s) : active[s][i] <=> HasQueued(s, i)

\* The two halves of C13: a node with a request queued is active, and a node
\* with none queued is not.
C13_QueuedIsActive ==
    \A s \in Slices : \A i \in pool(s) : HasQueued(s, i) => active[s][i]
C13_ActiveIsQueued ==
    \A s \in Slices : \A i \in pool(s) : active[s][i] => HasQueued(s, i)

\* ---------------------------------------------------------------- C19

\* The round that takes the clock to the horizon or past it handles the event
\* it popped: an arrival as every arrival, a departure as a pass.
LastRoundHandled ==
    (time < simulation_length /\ time' >= simulation_length) =>
        \E e \in event_heap \ event_heap' :
            /\ e.time = time'
            /\ e.type # DEPARTURE => ArrivalEffect(e)
            /\ e.type = DEPARTURE =>
                   /\ last'.n = last.n + 1
                   /\ last'.time = e.time
                   /\ trace' = last'.post.trace

\* C19: with a configured scheduler name, run() ends: the clock gets to
\* simulation_length or past it, the event that takes it there is handled,
\* no event is popped after that, and the event heap is not empty when run()
\* pops from it.
C19_RunTerminates ==
    /\ <>(time >= simulation_length)
    /\ [][LastRoundHandled]_vars
    /\ [][time >= simulation_length => UNCHANGED vars]_vars
    /\ [](time < simulation_length => \E e \in event_heap : IsNext(e))

\* Witness of C19: the run has ended past the horizon with the pass of the
\* departure that took the clock there.
C19_Witness ==
    /\ time > simulation_length
    /\ last.time = time
    /\ last.n >= 3

\* Witness of C19 for an arrival: the run has ended at the horizon with an
\* arrival.
C19_WitnessArrival ==
    /\ time = simulation_length
    /\ \E s \in Slices : send_queue[s] # << >> /\ send_queue[s][1].time = time

\* ---------------------------------------------------------------- C21

\* The entries of the trace for requests of slice s, by outcome.
Reported(s, success) ==
    Count(trace, LAMBDA x : SliceOf(x.event) = s /\ x.success = success)

\* C21: after every round of run(), under every strategy, the arrivals of a
\* slice handled so far are as many as its successful entries, its failed
\* entries and its queued requests together, and the missed counter of the
\* slice is the number of its failed entries.
C21_ArrivalsAccountedFor ==
    \A s \in Slices :
        /\ Cardinality(HandledCounters(s))
               = Reported(s, TRUE) + Reported(s, FALSE) + Len(send_queue[s])
        /\ MissedCounter(stats, s) = Reported(s, FALSE)

\* Witness of C21: a slice has requests served, requests expired and
\* requests queued, all at once.
C21_Witness ==
    \E s \in Slices :
        /\ Reported(s, TRUE) > 0
        /\ Reported(s, FALSE) > 0
        /\ Len(send_queue[s]) > 0
        /\ MissedCounter(stats, s) > 0

\* ---------------------------------------------------------------- C22

\* What a round does to the clock: the event it pops is not of an earlier
\* time than the clock before the pop, the clock becomes that time, and
\* every event the round arms is armed for a later time than the new clock.
ClockStep ==
    /\ time' >= time
    /\ \A e \in event_heap \ event_heap' : e.time >= time /\ time' = e.time
    /\ \A e \in event_heap' \ event_heap : e.time > time'

\* No armed event is of an earlier time than the clock, and no queued
\* request arrived after it.
ClockBetweenQueuesAndHeap ==
    /\ \A e \in event_heap : e.time >= time
    /\ \A s \in Slices : \A e \in Range(send_queue[s]) : e.time <= time

\* C22: the clock never goes back from one round of run() to the next: every
\* event is armed for the clock plus a positive delay or plus frame_length,
\* the heap gives the event of the smallest time, so the time of every event
\* popped is at least the clock before the pop, and every queued request
\* arrived no later than the clock.
C22_ClockNeverGoesBack ==
    /\ [][ClockStep]_vars
    /\ []ClockBetweenQueuesAndHeap

\* Witness of C22: after two departures the clock stands at the time of an
\* arrival just handled, a request of an earlier time is queued behind it,
\* and another event is armed for the same clock value.
C22_Witness ==
    /\ last.n >= 2
    /\ time > last.time
    /\ \E e \in event_heap : e.time = time
    /\ \E s \in Slices :
           /\ Len(send_queue[s]) >= 2
           /\ send_queue[s][1].time = time
           /\ send_queue[s][Len(send_queue[s])].time < time

\* ---------------------------------------------------------------- C23

\* Every arrival of slice s there has been: armed, queued or reported.
ArrivalsEver(s) ==
    {e \in event_heap : e.type = s + 3}
    \cup Range(send_queue[s])
    \cup {x.event : x \in {y \in Range(trace) : SliceOf(y.event) = s}}

\* The arrivals of slice s handled so far: those queued and those reported.
ArrivalsHandled(s) ==
    Len(send_queue[s]) + Reported(s, TRUE) + Reported(s, FALSE)

\* C23: the counters carried by the arrivals of a slice are pairwise
\* distinct over the run, and the arrival counter of the slice is its pool
\* size plus the arrivals of the slice handled so far, that is the number of
\* arrivals ever armed.
C23_CountersDistinct ==
    \A s \in Slices :
        /\ \A a, b \in ArrivalsEver(s) : a.counter = b.counter => a = b
        /\ ArrivalCounter(stats, s) = no_nodes(s) + ArrivalsHandled(s)
        /\ ArrivalCounter(stats, s) = Cardinality(ArrivalsEver(s))
        /\ {e.counter : e \in ArrivalsEver(s)} = 1 .. ArrivalCounter(stats, s)

\* Witness of C23: more than four arrivals of a slice of two nodes have been
\* handled, and arrivals of the slice are armed, queued and reported.
C23_Witness ==
    \E s \in Slices :
        /\ no_nodes(s) = 2
        /\ ArrivalCounter(stats, s) > 3 * no_nodes(s)
        /\ send_queue[s] # << >>
        /\ Reported(s, TRUE) + Reported(s, FALSE) > 0

\* ---------------------------------------------------------------- C24

\* The scan of the last pass found the cursor at the end of the pool: the
\* cursor stood there before the pass and the pass did not set it back.
ScanFoundPoolPassed ==
    /\ last.pre.node_pointer = no_nodes(URLLC)
    /\ ScanStart.node_pointer = no_nodes(URLLC)

\* C24: under RRN_FCFS and RRN_RRQ the cursor is never below 0 and never
\* above the size of the URLLC pool, and a pass that finds it at the size of
\* the pool without setting it back grants no URLLC node: no node is marked
\* assigned, the cursor stays, and the mMTC phase gets all of no_pilots.
C24_CursorWithinPool ==
    pilot_strategy \in {"RRN_FCFS", "RRN_RRQ"} =>
        /\ node_pointer >= 0
        /\ node_pointer <= no_nodes(URLLC)
        /\ (last.n > 0 /\ ScanFoundPoolPassed) =>
               /\ ScanGranted = {}
               /\ ScanEnd.assigned = last.mid.assigned
               /\ ScanEnd.budget = no_pilots
               /\ last.post.assigned = last.pre.assigned
               /\ last.post.node_pointer = no_nodes(URLLC)

\* Witness of C24: a pass found the cursor at the end of a pool of two nodes
\* while a URLLC request was queued, and granted nothing.
C24_Witness ==
    /\ pilot_strategy \in {"RRN_FCFS", "RRN_RRQ"}
    /\ last.n > 0
    /\ no_nodes(URLLC) = 2
    /\ ScanFoundPoolPassed
    /\ QueueBefore(URLLC) # << >>
    /\ node_pointer = no_nodes(URLLC)

\* Witness of C24 for the reset: a pass found the cursor at the end of the
\* pool, set it back and granted node 0 again.
C24_WitnessReset ==
    /\ pilot_strategy \in {"RRN_FCFS", "RRN_RRQ"}
    /\ last.n > 0
    /\ last.pre.node_pointer = no_nodes(URLLC)
    /\ ScanStart.node_pointer = 0
    /\ 0 \in ScanGranted

====
